---- MODULE Spec2Model ----
(***************************************************************************)
(* The string panel (StringPanel, latest version) as a state machine.      *)
(*                                                                         *)
(* The panel is a React function component.  Its state is the four         *)
(* useState cells (topics, message, renderDone, state), the updates React  *)
(* has queued for them, and the passive effects a commit has scheduled.    *)
(* The host drives it through context.onRender and through the             *)
(* actionHandler it publishes with the settings editor; the panel answers  *)
(* through context.saveState, context.updatePanelSettingsEditor,           *)
(* context.subscribe and the done callback.                                *)
(*                                                                         *)
(* React is taken as follows.  A setState call queues an update; a render  *)
(* applies every queued update of every cell, in the order queued, and     *)
(* commits; the commit schedules the passive effects whose dependencies    *)
(* changed (Object.is), and React runs them, in declaration order and all  *)
(* in one go, before it renders again.  The host may call in at any time   *)
(* between these steps, also between a commit and its effects.             *)
(*                                                                         *)
(* An optional JavaScript value is a sequence of length 0 or 1:            *)
(* undefined is <<>>, a defined value x is <<x>>.                          *)
(***************************************************************************)
EXTENDS Integers, Sequences, FiniteSets, TLC

VARIABLES
    prior,          \* context.initialState, as the host supplies it
    mounted,        \* initExamplePanel has rendered the component
    state,          \* useState<PanelState>: the committed configuration
    topics,         \* useState<readonly Topic[] | undefined>: a reference
    message,        \* useState<StringMessageEvent>: the committed message
    renderDone,     \* useState<(() => void) | undefined>
    pending,        \* the setState calls React has queued, per cell
    pendingEffects, \* the passive effects the last commit scheduled
    saved,          \* the host's persistence slot (last saveState argument)
    editor,         \* the host's settings editor (last published tree)
    owed,           \* per done function: deliveries not yet acknowledged
    calls,          \* the host calls the last step made, in order
    event,          \* the callback or React step that ran last
    nRenders,       \* onRender deliveries so far
    nActions        \* settings-tree actions so far

vars == <<prior, mounted, state, topics, message, renderDone, pending,
          pendingEffects, saved, editor, owed, calls, event, nRenders, nActions>>

\* --------------------------------------------------------------- bounds
MaxRenders == 2
MaxActions == 1

\* ------------------------------------------------------ optional values
Undefined == <<>>
Some(x) == <<x>>

\* a ?? b
Coalesce(a, b) == IF a = Undefined THEN Some(b) ELSE a

\* o?.f on an optional record whose fields are optional values
Chain(o, f) == IF o = Undefined THEN Undefined ELSE o[1][f]

\* if (v): undefined and the empty string are falsy
Truthy(v) == v # Undefined /\ v[1] # ""

\* ------------------------------------------------------------ constants
DefaultLabel == "String Data"
DefaultFontSize == 14
DefaultBackgroundColor == "#f9f9f9"
DefaultFontColor == "#000000"
DefaultFontFamily == "'Noto Sans JP', 'Hiragino Sans', 'Meiryo', 'Yu Gothic', sans-serif"
FontSizeMin == 8
FontSizeMax == 32

\* fontOptions: the values offered by the font select
fontOptions ==
    << DefaultFontFamily,
       "'Noto Serif JP', 'Hiragino Mincho ProN', 'Yu Mincho', serif",
       "'Source Code Pro', 'Consolas', 'Courier New', monospace",
       "'Helvetica Neue', Arial, 'Hiragino Kaku Gothic ProN', 'Hiragino Sans', Meiryo, sans-serif",
       "'Segoe UI', 'Yu Gothic UI', 'Meiryo UI', sans-serif",
       "'Roboto', 'Noto Sans JP', sans-serif",
       "'Times New Roman', 'YuMincho', 'Hiragino Mincho ProN', serif",
       "'Georgia', 'YuMincho', 'Hiragino Mincho ProN', serif" >>

DataFields == {"label", "topic", "visible"}
AppearanceFields == {"fontSize", "backgroundColor", "fontColor", "fontFamily"}

\* The paths of PanelState, as the settings tree names them
Paths == {<<"data", f>> : f \in DataFields} \cup {<<"appearance", f>> : f \in AppearanceFields}

\* ------------------------------------------------- the useState initializer
\* The first version's initializer: context.initialState as it is, no defaults
InitialStateVerbatim(initialState) ==
    [ data |-> [ label |-> Chain(Chain(initialState, "data"), "label"),
                 topic |-> Chain(Chain(initialState, "data"), "topic"),
                 visible |-> Chain(Chain(initialState, "data"), "visible") ],
      appearance |->
               [ fontSize |-> Chain(Chain(initialState, "appearance"), "fontSize"),
                 backgroundColor |-> Chain(Chain(initialState, "appearance"), "backgroundColor"),
                 fontColor |-> Chain(Chain(initialState, "appearance"), "fontColor"),
                 fontFamily |-> Chain(Chain(initialState, "appearance"), "fontFamily") ] ]

\* The initializer, had it re-validated the persisted font size
InitialStateClamped(initialState) ==
    LET n == Chain(Chain(initialState, "appearance"), "fontSize")
        s == InitialStateVerbatim(initialState)
    IN [ data |-> [ label |-> Coalesce(s.data.label, DefaultLabel),
                    topic |-> s.data.topic,
                    visible |-> Coalesce(s.data.visible, TRUE) ],
         appearance |->
                  [ fontSize |-> IF n = Undefined THEN Some(DefaultFontSize)
                                 ELSE IF n[1] < FontSizeMin THEN Some(FontSizeMin)
                                 ELSE IF n[1] > FontSizeMax THEN Some(FontSizeMax)
                                 ELSE n,
                    backgroundColor |-> Coalesce(s.appearance.backgroundColor, DefaultBackgroundColor),
                    fontColor |-> Coalesce(s.appearance.fontColor, DefaultFontColor),
                    fontFamily |-> Coalesce(s.appearance.fontFamily, DefaultFontFamily) ] ]

InitialState(initialState) ==
    [ data |-> [ label |-> Coalesce(Chain(Chain(initialState, "data"), "label"), DefaultLabel),
                 topic |-> Chain(Chain(initialState, "data"), "topic"),
                 visible |-> Coalesce(Chain(Chain(initialState, "data"), "visible"), TRUE) ],
      appearance |->
               [ fontSize |-> Coalesce(Chain(Chain(initialState, "appearance"), "fontSize"),
                                       DefaultFontSize),
                 backgroundColor |-> Coalesce(Chain(Chain(initialState, "appearance"), "backgroundColor"),
                                              DefaultBackgroundColor),
                 fontColor |-> Coalesce(Chain(Chain(initialState, "appearance"), "fontColor"),
                                        DefaultFontColor),
                 fontFamily |-> Coalesce(Chain(Chain(initialState, "appearance"), "fontFamily"),
                                         DefaultFontFamily) ] ]

\* The cell before the component has rendered: nothing is set
NoState ==
    [ data |-> [ label |-> Undefined, topic |-> Undefined, visible |-> Undefined ],
      appearance |-> [ fontSize |-> Undefined, backgroundColor |-> Undefined,
                       fontColor |-> Undefined, fontFamily |-> Undefined ] ]

\* --------------------------------------------------------- host inputs
\* What the layout may hold for this panel: nothing, an empty object, partly
\* shaped objects and full objects, with falsy-but-valid values among them.
PriorData ==
    { [label |-> l, topic |-> t, visible |-> v] :
        l \in {Undefined, Some(""), Some("Chatter")},
        t \in {Undefined, Some("/b")},
        v \in {Undefined, Some(FALSE), Some(TRUE)} }

PriorAppearance ==
    { [fontSize |-> n, backgroundColor |-> b, fontColor |-> c, fontFamily |-> f] :
        n \in {Undefined, Some(0), Some(20)},
        b \in {Undefined, Some("#ffffff")},
        c \in {Undefined, Some("")},
        f \in {Undefined, Some(fontOptions[3])} }

AllPriorStates ==
    {Undefined} \cup
    { Some([data |-> d, appearance |-> a]) :
        d \in {Undefined} \cup {Some(x) : x \in PriorData},
        a \in {Undefined} \cup {Some(x) : x \in PriorAppearance} }

\* The prior states the panel is run from: none, and a full one that restores a
\* topic and holds the falsy values
PriorStates ==
    { Undefined,
      Some([data |-> Some([label |-> Some(""), topic |-> Some("/b"), visible |-> Some(FALSE)]),
            appearance |-> Some([fontSize |-> Some(0), backgroundColor |-> Undefined,
                                 fontColor |-> Some(""), fontFamily |-> Undefined])]) }

\* The topic arrays the host may hand over; the index is the array's identity
TopicArrays ==
    << << [name |-> "/x", schemaName |-> "sensor_msgs/msg/Image"],
          [name |-> "/a", schemaName |-> "std_msgs/msg/String"],
          [name |-> "/b", schemaName |-> "std_msgs/String"] >>,
       << [name |-> "/b", schemaName |-> "std_msgs/String"],
          [name |-> "/x", schemaName |-> "sensor_msgs/msg/Image"] >>,
       << [name |-> "/x", schemaName |-> "sensor_msgs/msg/Image"] >>,
       << >> >>

\* renderState.topics: undefined, or a reference to one of the arrays
TopicInputs == {Undefined} \cup {Some(i) : i \in DOMAIN TopicArrays}

\* renderState.currentFrame: absent, empty, or a batch of message events
FrameInputs ==
    { Undefined, Some(<< >>),
      Some(<< [topic |-> "/b", message |-> [data |-> "hello"]] >>),
      Some(<< [topic |-> "/b", message |-> [data |-> "hello"]],
              [topic |-> "/b", message |-> [data |-> "world"]] >>) }

\* The done functions the host passes
DoneInputs == {"done1", "done2"}

\* The values an update of each field may carry
EditValues(path) ==
    CASE path[2] = "label" -> {Undefined, Some("Chatter")}
      [] path[2] = "topic" -> {Undefined, Some("/a"), Some("/b")}
      [] path[2] = "visible" -> {Undefined, Some(FALSE)}
      [] path[2] = "fontSize" -> {Undefined, Some(20)}
      [] path[2] = "backgroundColor" -> {Undefined, Some("#ffffff")}
      [] path[2] = "fontColor" -> {Undefined, Some("#ff0000")}
      [] path[2] = "fontFamily" -> {Undefined, Some(fontOptions[3])}

\* SettingsTreeAction: an update of a field, or a node action
ActionInputs ==
    UNION { { [action |-> "update", payload |-> [path |-> p, value |-> v]] :
                v \in EditValues(p) } : p \in Paths }
    \cup { [action |-> "perform-node-action", payload |-> [path |-> <<"data">>, id |-> "x"]] }

\* ------------------------------------------------------- derived values
\* topics ?? []
TopicsOrEmpty(ref) == IF ref = Undefined THEN << >> ELSE TopicArrays[ref[1]]

\* The first version's filter knew one schema name only
AllowedSchemaFirstVersion(topic) ==
    topic.schemaName = "std_msgs/msg/String"

AllowedSchema(topic) ==
    \/ topic.schemaName = "std_msgs/msg/String"
    \/ topic.schemaName = "std_msgs/String"

\* useMemo(() => (topics ?? []).filter(...), [topics])
stringTopicsOf(ref) == SelectSeq(TopicsOrEmpty(ref), AllowedSchema)
stringTopics == stringTopicsOf(topics)

\* stringTopics[0]?.name
FirstName(list) == IF Len(list) = 0 THEN Undefined ELSE Some(list[1].name)

\* lodash set(draft, path, value) under immer's produce
\* A setter that rebuilds the node around the one field, dropping its siblings
SetWholeNode(s, path, value) ==
    [s EXCEPT ![path[1]] = [f \in DOMAIN @ |-> IF f = path[2] THEN value ELSE Undefined]]

Set(s, path, value) == [s EXCEPT ![path[1]][path[2]] = value]

\* currentFrame[0], the oldest message of the batch
FirstOf(currentFrame) == currentFrame[1]

\* currentFrame[currentFrame.length - 1]
LatestOf(currentFrame) == currentFrame[Len(currentFrame)]

\* path[0] === "topic": an index off by one
TopicChangedWrongIndex(path) == path[1] = "topic"

\* path[1] === "topic" (JavaScript counts from 0)
TopicChanged(path) == path[2] = "topic"

\* The state cell after its queued updaters ran, first to last
RECURSIVE Reduce(_, _)
Reduce(q, s) ==
    IF q = << >> THEN s
    ELSE Reduce(Tail(q), Set(s, Head(q).path, Head(q).value))

\* immer returns the object it was given when an updater changes nothing, and a
\* new object otherwise: the cell holds a new object when some updater changed it
RECURSIVE Replaced(_, _)
Replaced(q, s) ==
    IF q = << >> THEN FALSE
    ELSE \/ Set(s, Head(q).path, Head(q).value) # s
         \/ Replaced(Tail(q), Set(s, Head(q).path, Head(q).value))

\* The render body's text
Body == IF message # Undefined THEN message[1].message.data ELSE "No message received yet"

NoPending == [state |-> << >>, topics |-> Undefined, message |-> Undefined, renderDone |-> Undefined]

\* ----------------------------------------------------------- host calls
SaveStateCall(s) == [op |-> "saveState", state |-> s]

\* The settings tree: the values its nodes and fields show
SettingsTree(s, candidates) ==
    [ label |-> s.data.label,
      visible |-> s.data.visible,
      topicOptions |-> [i \in DOMAIN candidates |-> candidates[i].name],
      topic |-> s.data.topic,
      fontSize |-> s.appearance.fontSize,
      fontSizeMin |-> FontSizeMin,
      fontSizeMax |-> FontSizeMax,
      fontFamily |-> s.appearance.fontFamily,
      fontOptions |-> fontOptions,
      fontColor |-> s.appearance.fontColor,
      backgroundColor |-> s.appearance.backgroundColor ]

EditorCall(s, candidates) ==
    [op |-> "updatePanelSettingsEditor", tree |-> SettingsTree(s, candidates)]

SubscribeCall(t) == [op |-> "subscribe", topic |-> t]

DoneCall(d) == [op |-> "done", fn |-> d]

\* ---------------------------------------------------------------- effects
AllEffects == {"settings", "subscribe", "defaultTopic", "renderDone"}

\* useEffect(..., [context, actionHandler, state, stringTopics])
SettingsEffect ==
    IF "settings" \in pendingEffects
    THEN << SaveStateCall(state), EditorCall(state, stringTopics) >>
    ELSE << >>

\* useEffect(..., [context, state.data.topic])
SubscribeEffect ==
    IF "subscribe" \in pendingEffects /\ Truthy(state.data.topic)
    THEN << SubscribeCall(state.data.topic) >>
    ELSE << >>

\* The default-topic effect without its test of state.data.topic
DefaultTopicEffectUnguarded ==
    IF "defaultTopic" \in pendingEffects /\ Len(stringTopics) > 0
    THEN << [path |-> <<"data", "topic">>, value |-> FirstName(stringTopics), by |-> "default"] >>
    ELSE << >>

\* useEffect(..., [state.data.topic, stringTopics]): the updater it queues
DefaultTopicEffect ==
    IF /\ "defaultTopic" \in pendingEffects
       /\ state.data.topic = Undefined
       /\ Len(stringTopics) > 0
    THEN << [path |-> <<"data", "topic">>, value |-> FirstName(stringTopics), by |-> "default"] >>
    ELSE << >>

\* useEffect(() => { renderDone?.(); }, [renderDone])
RenderDoneEffect ==
    IF "renderDone" \in pendingEffects /\ renderDone # Undefined
    THEN << DoneCall(renderDone[1]) >>
    ELSE << >>

\* The first version saved under [context, state.topic]: the topic alone
ScheduledEffectsFirstVersion(newState, stateReplaced, newTopics, newRenderDone) ==
    (IF newState.data.topic # state.data.topic THEN {"settings", "subscribe"} ELSE {})
    \cup (IF newState.data.topic # state.data.topic \/ newTopics # topics
          THEN {"defaultTopic"} ELSE {})
    \cup (IF newRenderDone # renderDone THEN {"renderDone"} ELSE {})

\* The effects a commit schedules: those whose dependencies changed
ScheduledEffects(newState, stateReplaced, newTopics, newRenderDone) ==
    (IF stateReplaced \/ newTopics # topics THEN {"settings"} ELSE {})
    \cup (IF newState.data.topic # state.data.topic THEN {"subscribe"} ELSE {})
    \cup (IF newState.data.topic # state.data.topic \/ newTopics # topics
          THEN {"defaultTopic"} ELSE {})
    \cup (IF newRenderDone # renderDone THEN {"renderDone"} ELSE {})

\* ------------------------------------------------------------------ Init
Init ==
    /\ prior \in PriorStates
    /\ mounted = FALSE
    /\ state = NoState
    /\ topics = Undefined
    /\ message = Undefined
    /\ renderDone = Undefined
    /\ pending = NoPending
    /\ pendingEffects = {}
    /\ saved = Undefined
    /\ editor = Undefined
    /\ owed = [d \in DoneInputs |-> 0]
    /\ calls = << >>
    /\ event = [kind |-> "none"]
    /\ nRenders = 0
    /\ nActions = 0

\* --------------------------------------------------------------- actions
\* initExamplePanel: root.render mounts the component.  The first render runs the
\* useState initializers, its commit runs the layout effect (context.onRender is
\* set, topics and currentFrame are watched) and schedules every passive effect.
initExamplePanel ==
    /\ ~mounted
    /\ mounted' = TRUE
    /\ state' = InitialState(prior)
    /\ pendingEffects' = AllEffects
    /\ calls' = << >>
    /\ event' = [kind |-> "init"]
    /\ UNCHANGED <<prior, topics, message, renderDone, pending, saved, editor, owed,
                   nRenders, nActions>>

\* context.onRender(renderState, done)
onRender(renderTopics, currentFrame, done) ==
    /\ mounted
    /\ nRenders < MaxRenders
    /\ nRenders' = nRenders + 1
    /\ pending' = [pending EXCEPT
                     !.renderDone = Some(Some(done)),
                     !.topics = Some(renderTopics),
                     !.message = IF currentFrame # Undefined /\ Len(currentFrame[1]) > 0
                                 THEN Some(Some(LatestOf(currentFrame[1])))
                                 ELSE @]
    /\ owed' = [owed EXCEPT ![done] = @ + 1]
    /\ calls' = << >>
    /\ event' = [kind |-> "onRender", topics |-> renderTopics, currentFrame |-> currentFrame,
                 done |-> done]
    /\ UNCHANGED <<prior, mounted, state, topics, message, renderDone, pendingEffects,
                   saved, editor, nActions>>

\* actionHandler(action), reachable by the host once the editor holds it
actionHandler(action) ==
    /\ editor # Undefined
    /\ nActions < MaxActions
    /\ nActions' = nActions + 1
    /\ IF action.action = "update"
       THEN /\ pending' = [pending EXCEPT !.state =
                             Append(@, [path |-> action.payload.path,
                                        value |-> action.payload.value, by |-> "action"])]
            /\ calls' = IF TopicChanged(action.payload.path)
                        THEN << SubscribeCall(action.payload.value) >>
                        ELSE << >>
       ELSE /\ pending' = pending
            /\ calls' = << >>
    /\ event' = [kind |-> "action", action |-> action]
    /\ UNCHANGED <<prior, mounted, state, topics, message, renderDone, pendingEffects,
                   saved, editor, owed, nRenders>>

\* React renders the component with the queued updates applied and commits.
\* It flushes the passive effects of the previous commit first.
Render ==
    /\ mounted
    /\ pendingEffects = {}
    /\ pending # NoPending
    /\ LET newState == Reduce(pending.state, state)
           newTopics == IF pending.topics # Undefined THEN pending.topics[1] ELSE topics
           newMessage == IF pending.message # Undefined THEN pending.message[1] ELSE message
           newRenderDone == IF pending.renderDone # Undefined THEN pending.renderDone[1]
                            ELSE renderDone
       IN /\ state' = newState
          /\ topics' = newTopics
          /\ message' = newMessage
          /\ renderDone' = newRenderDone
          /\ pendingEffects' = ScheduledEffects(newState, Replaced(pending.state, state),
                                                newTopics, newRenderDone)
    /\ pending' = NoPending
    /\ calls' = << >>
    /\ event' = [kind |-> "render"]
    /\ UNCHANGED <<prior, mounted, saved, editor, owed, nRenders, nActions>>

\* React runs the scheduled passive effects, in the order the component declares them
FlushPassiveEffects ==
    /\ pendingEffects # {}
    /\ calls' = SettingsEffect \o SubscribeEffect \o RenderDoneEffect
    /\ saved' = IF SettingsEffect # << >> THEN Some(state) ELSE saved
    /\ editor' = IF SettingsEffect # << >> THEN Some(SettingsTree(state, stringTopics)) ELSE editor
    /\ pending' = [pending EXCEPT !.state = @ \o DefaultTopicEffect]
    /\ owed' = IF RenderDoneEffect # << >>
               THEN [owed EXCEPT ![renderDone[1]] = IF @ > 0 THEN @ - 1 ELSE 0]
               ELSE owed
    /\ pendingEffects' = {}
    /\ event' = [kind |-> "effects", ran |-> pendingEffects]
    /\ UNCHANGED <<prior, mounted, state, topics, message, renderDone, nRenders, nActions>>

\* The host delivers settings-tree actions of every kind, and a topic list
Next ==
    \/ initExamplePanel
    \/ \E t \in {Undefined, Some(1)} : onRender(t, Undefined, "done1")
    \/ \E a \in ActionInputs : actionHandler(a)
    \/ Render
    \/ FlushPassiveEffects

Spec == Init /\ [][Next]_vars

\* The host delivers topic lists of every kind, and updates of the topic
NextTopics ==
    \/ initExamplePanel
    \/ \E t \in TopicInputs : onRender(t, Undefined, "done1")
    \/ \E a \in {x \in ActionInputs : x.payload.path = <<"data", "topic">>} : actionHandler(a)
    \/ Render
    \/ FlushPassiveEffects

SpecTopics == Init /\ [][NextTopics]_vars

\* The host delivers frames and done functions, with and without a topic list
NextFrames ==
    \/ initExamplePanel
    \/ \E t \in {Undefined, Some(1)}, f \in FrameInputs, d \in DoneInputs : onRender(t, f, d)
    \/ Render
    \/ FlushPassiveEffects

SpecFrames == Init /\ [][NextFrames]_vars

\* The panel mounted from every shape of prior state, the host delivering nothing
InitAll ==
    /\ prior \in AllPriorStates
    /\ mounted = FALSE
    /\ state = NoState
    /\ topics = Undefined
    /\ message = Undefined
    /\ renderDone = Undefined
    /\ pending = NoPending
    /\ pendingEffects = {}
    /\ saved = Undefined
    /\ editor = Undefined
    /\ owed = [d \in DoneInputs |-> 0]
    /\ calls = << >>
    /\ event = [kind |-> "none"]
    /\ nRenders = 0
    /\ nActions = 0

NextMount ==
    \/ initExamplePanel
    \/ FlushPassiveEffects

SpecMount == InitAll /\ [][NextMount]_vars

\* =================================================================== claims
\* Notions the statements below share
Quiescent == mounted /\ pending = NoPending /\ pendingEffects = {}

Field(s, path) == s[path[1]][path[2]]

\* The value the prior state holds at a path, undefined when any level is absent
PriorValue(path) ==
    IF prior = Undefined THEN Undefined
    ELSE IF prior[1][path[1]] = Undefined THEN Undefined
    ELSE prior[1][path[1]][1][path[2]]

DocumentedDefault(path) ==
    CASE path[2] = "label" -> "String Data"
      [] path[2] = "visible" -> TRUE
      [] path[2] = "fontSize" -> 14
      [] path[2] = "backgroundColor" -> "#f9f9f9"
      [] path[2] = "fontColor" -> "#000000"
      [] path[2] = "fontFamily" ->
            "'Noto Sans JP', 'Hiragino Sans', 'Meiryo', 'Yu Gothic', sans-serif"

AllowedSchemaNames == {"std_msgs/msg/String", "std_msgs/String"}

HasAllowed(list) == \E i \in DOMAIN list : list[i].schemaName \in AllowedSchemaNames

IsFirstAllowed(name, list) ==
    \E i \in DOMAIN list :
        /\ list[i].schemaName \in AllowedSchemaNames
        /\ list[i].name = name
        /\ \A j \in 1..(i - 1) : list[j].schemaName \notin AllowedSchemaNames

\* The queued updates of a path, and those among them that an action made
Writes(q, path) == {i \in DOMAIN q : q[i].path = path}
ActionWrites(q, path) == {i \in Writes(q, path) : q[i].by = "action"}

IsSubscribe(c) == c.op = "subscribe"
IsSaveState(c) == c.op = "saveState"
IsEditor(c) == c.op = "updatePanelSettingsEditor"

TopicPath == <<"data", "topic">>

\* C1: mounted from any prior state (absent, empty, partly shaped, full), the
\* configuration holds at every path the prior state's value when it has one, falsy
\* values included, and the documented default otherwise; only topic may be undefined.
C1_InitialConfiguration ==
    mounted =>
        \A p \in Paths :
            /\ PriorValue(p) # Undefined => Field(state, p) = PriorValue(p)
            /\ PriorValue(p) = Undefined /\ p # TopicPath
                  => Field(state, p) = Some(DocumentedDefault(p))
            /\ PriorValue(p) = Undefined /\ p = TopicPath => Field(state, p) = Undefined
            /\ p # TopicPath => Field(state, p) # Undefined

\* A partly shaped prior state with falsy values: they are kept, the rest defaulted
C1_Witness ==
    /\ mounted
    /\ event.kind = "effects"
    /\ prior # Undefined
    /\ PriorValue(<<"data", "visible">>) = Some(FALSE)
    /\ PriorValue(<<"data", "label">>) = Some("")
    /\ PriorValue(<<"appearance", "fontSize">>) = Some(0)
    /\ prior[1].appearance[1].fontFamily = Undefined
    /\ state.data.visible = Some(FALSE)
    /\ state.data.label = Some("")
    /\ state.appearance.fontSize = Some(0)
    /\ state.appearance.fontFamily = Some(DefaultFontFamily)
    /\ saved = Some(state)

\* C2: a topic list committed while no topic is selected makes the default-topic
\* effect queue the name of the list's first topic with an allowed schema, the next
\* commit selects it (no edit of the topic intervening) and the effects of that commit
\* subscribe to exactly it; with no allowed topic nothing is queued, nothing is
\* subscribed, and the selection stays undefined.  With no settings action delivered,
\* the panel comes to rest without a topic only when the list has no allowed topic.
C2_TopicDiscovery ==
    /\ [](Quiescent /\ nActions = 0 /\ state.data.topic = Undefined
             => ~HasAllowed(TopicsOrEmpty(topics)))
    /\ [][Render /\ topics' # topics => "defaultTopic" \in pendingEffects']_vars
    /\ [][Render /\ state'.data.topic # state.data.topic => "subscribe" \in pendingEffects']_vars
    /\ [][FlushPassiveEffects /\ state.data.topic = Undefined =>
            /\ Len(SelectSeq(calls', IsSubscribe)) = 0
            /\ IF "defaultTopic" \in pendingEffects /\ HasAllowed(TopicsOrEmpty(topics))
               THEN \E i \in DOMAIN TopicsOrEmpty(topics) :
                      /\ IsFirstAllowed(TopicsOrEmpty(topics)[i].name, TopicsOrEmpty(topics))
                      /\ pending'.state =
                            Append(pending.state,
                                   [path |-> TopicPath, by |-> "default",
                                    value |-> Some(TopicsOrEmpty(topics)[i].name)])
               ELSE pending'.state = pending.state]_vars
    /\ [][Render /\ state.data.topic = Undefined /\ state'.data.topic # Undefined
                 /\ ActionWrites(pending.state, TopicPath) = {}
            => IsFirstAllowed(state'.data.topic[1], TopicsOrEmpty(topics))]_vars
    /\ [][FlushPassiveEffects /\ "subscribe" \in pendingEffects /\ state.data.topic # Undefined
            => SelectSeq(calls', IsSubscribe) = << SubscribeCall(state.data.topic) >>]_vars

\* /a was selected from a list whose first topic has another schema, and subscribed
C2_Witness ==
    /\ prior = Undefined
    /\ nActions = 0
    /\ topics = Some(1)
    /\ state.data.topic = Some("/a")
    /\ event.kind = "effects"
    /\ SelectSeq(calls, IsSubscribe) = << SubscribeCall(Some("/a")) >>

\* C3: a selected topic changes only in a commit that applies an edit of the topic;
\* no delivery of a topic list, and no effect run while a topic is selected, changes
\* it or queues a change of it.
C3_SelectionKept ==
    /\ [][state.data.topic # Undefined /\ state'.data.topic # state.data.topic
            => ActionWrites(pending.state, TopicPath) # {}]_vars
    /\ [][FlushPassiveEffects /\ state.data.topic # Undefined
            => pending'.state = pending.state]_vars
    /\ [][nRenders' # nRenders => state' = state /\ pending'.state = pending.state]_vars

\* /a was selected automatically; a later list without /a has been committed
C3_Witness ==
    /\ Quiescent
    /\ prior = Undefined
    /\ nActions = 0
    /\ state.data.topic = Some("/a")
    /\ topics = Some(3)
    /\ event.kind = "effects"

\* The message the panel shows once React has rendered what is queued
Latest == IF pending.message # Undefined THEN pending.message[1] ELSE message

\* C4: the latest message is unset until a non-empty batch is delivered; an onRender
\* with a non-empty currentFrame makes it the batch's last element, an onRender with
\* an empty or absent currentFrame and every other step leave it as it is, and the
\* commit shows it.
C4_LatestMessage ==
    /\ [](nRenders = 0 => message = Undefined /\ Latest = Undefined
                          /\ Body = "No message received yet")
    /\ [][nRenders' # nRenders =>
            IF event'.currentFrame # Undefined /\ Len(event'.currentFrame[1]) > 0
            THEN Latest' = Some(event'.currentFrame[1][Len(event'.currentFrame[1])])
            ELSE Latest' = Latest]_vars
    /\ [][nRenders' = nRenders => Latest' = Latest]_vars
    /\ [][Render => message' = Latest /\ (message' # Undefined => Body' = message'[1].message.data)]_vars

\* The last message of a two-message batch is shown, and an empty batch that came
\* after it has left it alone
C4_Witness ==
    /\ message # Undefined
    /\ message[1].message.data = "world"
    /\ Body = "world"
    /\ event.kind = "onRender"
    /\ event.currentFrame = Some(<< >>)
    /\ pending.message = Undefined

\* The last queued update of a path
LastWrite(q, path) == q[CHOOSE i \in Writes(q, path) : \A j \in Writes(q, path) : j <= i]

FontSizePath == <<"appearance", "fontSize">>

Changing(q, s) ==
    {i \in DOMAIN q : Reduce(SubSeq(q, 1, i), s) # Reduce(SubSeq(q, 1, i - 1), s)}

TreeShows(tree, s) ==
    /\ tree.label = s.data.label
    /\ tree.visible = s.data.visible
    /\ tree.topic = s.data.topic
    /\ tree.fontSize = s.appearance.fontSize
    /\ tree.fontFamily = s.appearance.fontFamily
    /\ tree.fontColor = s.appearance.fontColor
    /\ tree.backgroundColor = s.appearance.backgroundColor

InRange(n) == n # Undefined /\ n[1] \in 8..32

\* C8 as stated: once mounted, appearance.fontSize is an integer within [8, 32]
C8_FontSizeInRange == mounted => InRange(state.appearance.fontSize)

\* C8 as amended: the panel never re-validates the font size.  The mount takes the
\* prior state's font size as it is, and 14 when it has none; afterwards the font size
\* changes only in a commit that applies an update of appearance.fontSize, to the
\* last value queued; the published editor bounds the field by 8 and 32.
C8_FontSizePassedThrough ==
    /\ [][initExamplePanel =>
            state'.appearance.fontSize = IF PriorValue(FontSizePath) # Undefined
                                         THEN PriorValue(FontSizePath)
                                         ELSE Some(14)]_vars
    /\ [][mounted /\ state'.appearance.fontSize # state.appearance.fontSize =>
            /\ Render
            /\ ActionWrites(pending.state, FontSizePath) # {}
            /\ state'.appearance.fontSize = LastWrite(pending.state, FontSizePath).value]_vars
    /\ [](editor # Undefined => editor[1].fontSizeMin = 8 /\ editor[1].fontSizeMax = 32)

\* A persisted font size of 0 is in use, persisted again and shown in the editor
C8_Witness ==
    /\ mounted
    /\ event.kind = "effects"
    /\ PriorValue(FontSizePath) = Some(0)
    /\ state.appearance.fontSize = Some(0)
    /\ saved = Some(state)
    /\ editor # Undefined
    /\ editor[1].fontSize = Some(0)

\* C9: once mounted, every field of the configuration but topic is defined
C9_AlwaysDefined ==
    mounted => \A p \in Paths \ {TopicPath} : Field(state, p) # Undefined

\* C10: every onRender delivery is acknowledged: with nothing queued and no effect
\* pending, no done function is owed a call
C10_EveryRenderAcknowledged ==
    Quiescent => \A d \in DoneInputs : owed[d] = 0

====
